---- MODULE Spec2Model ----
(***************************************************************************)
(* Model of src/server.js: the GET /generate-pdf handler, the ephemeral    *)
(* file helpers (getTempFilePath, deleteFileAfterDelay) and the collabor-  *)
(* ators it drives (the rendering engine, the filesystem, the timer queue, *)
(* the HTTP response object).                                              *)
(*                                                                         *)
(* One action is one run-to-completion slice of the handler: from the      *)
(* settlement of the promise it awaits up to the next await, the catch and *)
(* finally blocks included when the slice throws.  Every external call     *)
(* (engine, filesystem) may succeed or fail; the outcome is drawn with \E. *)
(***************************************************************************)
EXTENDS Integers, Sequences, FiniteSets, TLC

\* ---------------------------------------------------------------- bounds
NumReqs == 2          \* requests that may arrive (and overlap)
MaxSize == 2          \* largest exported file, in bytes

Reqs == 1..NumReqs
Sizes == 0..MaxSize

\* ------------------------------------------------------- program constants
Undefined == 0                       \* `let browser; let tempFilePath;`
DefaultDelay == 5000                 \* deleteFileAfterDelay's default delay
SettleDelay == 3000                  \* the fixed settle delay after the readiness wait
HttpStatuses == {200, 404, 500}      \* statuses a navigation may observe
Urls == {"absent", "", "https://example.com"}   \* req.query.url
AllowedOrigins == {"http://localhost:3000", "*"}   \* allowedOrigins
Origins == {"none", "http://localhost:3000", "https://evil.example"}

VARIABLES
  pc,            \* per request: the await the handler is suspended at
  url,           \* per request: req.query.url
  browser,       \* per request: the handler's `browser` variable
  tempFilePath,  \* per request: the handler's `tempFilePath` variable
  sent,          \* per request: the responses written to `res`, in order
  rejected,      \* per request: the handler's promise rejected
  log,           \* per request: the calls the handler made, in order
  files,         \* the temp directory: path -> content (a byte sequence)
  live,          \* the browser processes that are running
  timers,        \* pending setTimeout callbacks of deleteFileAfterDelay
  unlinks,       \* per request: outcome of each deletion callback it scheduled
  nextName,      \* source of getTempFilePath's random names
  nodeEnv,       \* process.env.NODE_ENV
  origin,        \* per request: its Origin header ("none": no header)
  unhandled      \* timer callbacks whose rejection reached process level

vars == <<pc, url, browser, tempFilePath, sent, rejected, log, files, live,
          timers, unlinks, nextName, nodeEnv, origin, unhandled>>

\* ------------------------------------------------------------- helpers
Bytes(n) == [i \in 1..n |-> "b"]

FileExists(p) == p \in DOMAIN files

WriteFile(fs, p, c) == (p :> c) @@ fs

\* mutant: the size check never sees an empty file
StatSize_NeverZero(p) == Len(files[p]) + 1

\* (await fs.stat(p)).size
StatSize(p) == Len(files[p])

RemoveFile(fs, p) == [q \in (DOMAIN fs) \ {p} |-> fs[q]]

\* mutant: only server errors count as a failed load
ResponseOk_Below500(status) == status < 500

\* HTTPResponse.ok() of the rendering engine
ResponseOk(status) == status = 0 \/ (status >= 200 /\ status <= 299)

\* mutant: `url === undefined` instead of `!url`
UrlMissing_OnlyAbsent(u) == u = "absent"

\* mutant: cors() with its default options, every origin passes
CorsAllowed_Any(o) == TRUE

\* corsOptions.origin: no Origin header, or an entry of allowedOrigins
CorsAllowed(o) == o = "none" \/ o \in AllowedOrigins

\* `!url`
UrlMissing(u) == u = "absent" \/ u = ""

\* an Error's message; `code` is the interpolated status (0: none)
Msg(text, code) == [text |-> text, code |-> code]

InFlight(r) == pc[r] \notin {"idle", "corsRejected", "done"}

HeadersSent(r) == Len(sent[r]) > 0

\* mutant: a fixed file name instead of a random one
getTempFilePath_FixedName == CHOOSE p \in 1..NumReqs : \A q \in 1..NumReqs : p <= q

\* getTempFilePath: a fresh random name inside tempDir
getTempFilePath == nextName

Paths == 1..NumReqs

\* puppeteer.launch() resolves to a new Browser object on every call; the
\* model names the object after the request whose launch created it
LaunchedBrowser(r) == r

\* ------------------------------------------------ Ephemeral File Manager
\* deleteFileAfterDelay(filePath, delay): setTimeout(callback, delay).
\* `tm` is the timer queue; the callback is TimerFire below.
deleteFileAfterDelay(r, tm, filePath, delay) ==
  tm \cup {[owner |-> r,
            seq   |-> Cardinality({t \in tm : t.owner = r}) + 1,
            path  |-> filePath,
            delay |-> delay]}

\* ------------------------------------------------------- HTTP responses
\* res.status(500).json({error, message, stack}): JSON drops an undefined key
ErrorResponse(err) ==
  [status |-> 500,
   type   |-> "application/json",
   body   |-> IF nodeEnv = "development"
              THEN [error |-> "Failed to generate PDF", message |-> err,
                    stack |-> "stack"]
              ELSE [error |-> "Failed to generate PDF", message |-> err]]

\* Content-Type / Content-Disposition / Content-Length headers, res.send(pdfBuffer)
PdfResponse(pdfBuffer) ==
  [status |-> 200,
   type   |-> "application/pdf",
   contentLength |-> Len(pdfBuffer),
   body   |-> pdfBuffer]

\* --------------------------------------------- the handler's catch/finally
\* mutant: the failure path schedules the deletion with the default delay
CatchBlock_DefaultDelay(r, err, lg) ==
  IF HeadersSent(r)
  THEN [sent |-> sent[r], timers |-> timers, log |-> lg, threw |-> TRUE]
  ELSE [sent   |-> Append(sent[r], ErrorResponse(err)),
        timers |-> IF tempFilePath[r] # Undefined
                   THEN deleteFileAfterDelay(r, timers, tempFilePath[r], DefaultDelay)
                   ELSE timers,
        log    |-> IF tempFilePath[r] # Undefined
                   THEN lg \o << <<"res", 500>>,
                               <<"deleteFileAfterDelay", tempFilePath[r], DefaultDelay>> >>
                   ELSE Append(lg, <<"res", 500>>),
        threw  |-> FALSE]

\* mutant: the failure path answers but schedules no deletion
CatchBlock_NoDeletion(r, err, lg) ==
  IF HeadersSent(r)
  THEN [sent |-> sent[r], timers |-> timers, log |-> lg, threw |-> TRUE]
  ELSE [sent   |-> Append(sent[r], ErrorResponse(err)),
        timers |-> timers,
        log    |-> Append(lg, <<"res", 500>>),
        threw  |-> FALSE]

\* mutant: the catch block logs and rethrows instead of answering
CatchBlock_Rethrow(r, err, lg) ==
  [sent |-> sent[r], timers |-> timers, log |-> lg, threw |-> TRUE]

\* catch (error) { res.status(500).json(...); if (tempFilePath) delete now }
\* res.status().json() throws once the headers are sent; then the rest of the
\* catch block is skipped and the exception leaves the handler.
CatchBlock(r, err, lg) ==
  IF HeadersSent(r)
  THEN [sent |-> sent[r], timers |-> timers, log |-> lg, threw |-> TRUE]
  ELSE [sent   |-> Append(sent[r], ErrorResponse(err)),
        timers |-> IF tempFilePath[r] # Undefined
                   THEN deleteFileAfterDelay(r, timers, tempFilePath[r], 0)
                   ELSE timers,
        log    |-> IF tempFilePath[r] # Undefined
                   THEN lg \o << <<"res", 500>>,
                               <<"deleteFileAfterDelay", tempFilePath[r], 0>> >>
                   ELSE Append(lg, <<"res", 500>>),
        threw  |-> FALSE]

\* mutant: no finally block, the browser is never closed
FinallyBlock_NoClose(r, lg) == [pc |-> "done", log |-> lg]

\* mutant: browser.close() at the end of the try block instead of a finally
FinallyBlock_OnlyOnSuccess(r, lg) ==
  IF browser[r] # Undefined /\ \A i \in DOMAIN lg : lg[i][1] # "throw"
  THEN [pc |-> "close", log |-> Append(lg, <<"close", browser[r]>>)]
  ELSE [pc |-> "done", log |-> lg]

\* finally { if (browser) { try { await browser.close() } catch {} } }
FinallyBlock(r, lg) ==
  IF browser[r] # Undefined
  THEN [pc |-> "close", log |-> Append(lg, <<"close", browser[r]>>)]
  ELSE [pc |-> "done", log |-> lg]

\* a throw inside the try block: catch, then finally
Throw(r, err) ==
  LET c == CatchBlock(r, err, Append(log[r], <<"throw", 0>>))
      f == FinallyBlock(r, c.log)
  IN /\ sent' = [sent EXCEPT ![r] = c.sent]
     /\ timers' = c.timers
     /\ rejected' = [rejected EXCEPT ![r] = c.threw]
     /\ log' = [log EXCEPT ![r] = f.log]
     /\ pc' = [pc EXCEPT ![r] = f.pc]

\* line 123: the throw after a navigation that observed a non-success status
StatusThrow(r, status) ==
  LET c == CatchBlock(r, Msg("Failed to load page: ", status),
                      log[r] \o << <<"status", status>>, <<"throw", 0>> >>)
      f == FinallyBlock(r, c.log)
  IN /\ sent' = [sent EXCEPT ![r] = c.sent]
     /\ timers' = c.timers
     /\ rejected' = [rejected EXCEPT ![r] = c.threw]
     /\ log' = [log EXCEPT ![r] = f.log]
     /\ pc' = [pc EXCEPT ![r] = f.pc]

\* the try block goes on to its next await
Await(r, next, calls) ==
  /\ pc' = [pc EXCEPT ![r] = next]
  /\ log' = [log EXCEPT ![r] = @ \o calls]
  /\ UNCHANGED <<sent, timers, rejected>>

\* ------------------------------------------------------------ the handler
Init ==
  /\ pc = [r \in Reqs |-> "idle"]
  /\ url = [r \in Reqs |-> "absent"]
  /\ browser = [r \in Reqs |-> Undefined]
  /\ tempFilePath = [r \in Reqs |-> Undefined]
  /\ sent = [r \in Reqs |-> <<>>]
  /\ rejected = [r \in Reqs |-> FALSE]
  /\ log = [r \in Reqs |-> <<>>]
  /\ files = <<>>
  /\ live = {}
  /\ timers = {}
  /\ unlinks = [r \in Reqs |-> <<>>]
  /\ nextName = 1
  /\ nodeEnv \in {"development", "production"}
  /\ origin = [r \in Reqs |-> "none"]
  /\ unhandled = {}

\* lines 19-34: the cors middleware turns the request down: next(err), the
\* framework's default error handler answers and no route handler runs
CorsReject(r, o, u) ==
  /\ pc[r] = "idle"
  /\ \A q \in Reqs : q < r => pc[q] # "idle"   \* numbered in order of arrival
  /\ ~CorsAllowed(o)
  /\ origin' = [origin EXCEPT ![r] = o]
  /\ url' = [url EXCEPT ![r] = u]
  /\ pc' = [pc EXCEPT ![r] = "corsRejected"]
  /\ sent' = [sent EXCEPT ![r] =
                <<[status |-> 500, type |-> "text/html",
                   body |-> "Error: Not allowed by CORS"]>>]
  /\ UNCHANGED <<browser, tempFilePath, rejected, log, files, live, timers,
                 unlinks, nextName, nodeEnv, unhandled>>

\* lines 19-34, 74-91: the request passes the cors middleware and the handler
\* starts; url check, temp path, puppeteer.launch()
Start(r, o, u) ==
  /\ pc[r] = "idle"
  /\ \A q \in Reqs : q < r => pc[q] # "idle"   \* numbered in order of arrival
  /\ CorsAllowed(o)
  /\ origin' = [origin EXCEPT ![r] = o]
  /\ url' = [url EXCEPT ![r] = u]
  /\ IF UrlMissing(u)
     THEN /\ Throw(r, Msg("URL parameter is required", 0))
          /\ UNCHANGED <<tempFilePath, nextName>>
     ELSE /\ tempFilePath' = [tempFilePath EXCEPT ![r] = getTempFilePath]
          /\ nextName' = nextName + 1
          /\ Await(r, "launch", << <<"getTempFilePath", getTempFilePath>>,
                                    <<"launch", 0>> >>)
  /\ UNCHANGED <<browser, files, live, unlinks, nodeEnv, unhandled>>

\* lines 91-103: launch settles; on success browser.newPage()
LaunchReturn(r) ==
  /\ pc[r] = "launch"
  /\ \/ /\ browser' = [browser EXCEPT ![r] = LaunchedBrowser(r)]
        /\ live' = live \cup {LaunchedBrowser(r)}
        /\ Await(r, "newPage", << <<"launched", LaunchedBrowser(r)>>,
                                 <<"newPage", LaunchedBrowser(r)>> >>)
     \/ /\ Throw(r, Msg("Failed to launch the browser process", 0))
        /\ UNCHANGED <<browser, live>>
  /\ UNCHANGED <<url, tempFilePath, files, unlinks, nextName, nodeEnv, origin, unhandled>>

\* lines 103-108: newPage settles; on success page.setViewport()
NewPageReturn(r) ==
  /\ pc[r] = "newPage"
  /\ \/ Await(r, "setViewport", << <<"setViewport", browser[r]>> >>)
     \/ Throw(r, Msg("Protocol error (Target.createTarget)", 0))
  /\ UNCHANGED <<url, browser, tempFilePath, files, live, unlinks, nextName,
                 nodeEnv, origin, unhandled>>

\* lines 108-117: setViewport settles; on success page.goto(url)
SetViewportReturn(r) ==
  /\ pc[r] = "setViewport"
  /\ \/ Await(r, "goto", << <<"goto", browser[r]>> >>)
     \/ Throw(r, Msg("Protocol error (Emulation.setDeviceMetricsOverride)", 0))
  /\ UNCHANGED <<url, browser, tempFilePath, files, live, unlinks, nextName,
                 nodeEnv, origin, unhandled>>

\* lines 114-129: goto settles (a response, null, or a timeout); status check;
\* on success page.waitForSelector('body')
GotoReturn(r) ==
  /\ pc[r] = "goto"
  /\ \/ \E status \in HttpStatuses :
          IF ResponseOk(status)
          THEN Await(r, "waitForSelector",
                     << <<"status", status>>, <<"waitForSelector", browser[r]>> >>)
          ELSE StatusThrow(r, status)
     \/ Throw(r, Msg("Navigation timeout of 60000 ms exceeded", 0))
     \/ Throw(r, Msg("Cannot read properties of null (reading 'status')", 0))
  /\ UNCHANGED <<url, browser, tempFilePath, files, live, unlinks, nextName,
                 nodeEnv, origin, unhandled>>

\* mutant: no inner try/catch, a failed readiness wait fails the request
WaitForSelectorReturn_Fatal(r) ==
  /\ pc[r] = "waitForSelector"
  /\ \/ Await(r, "settle", << <<"settle", SettleDelay>> >>)
     \/ LET c == CatchBlock(r, Msg("waitForSelector failed", 0),
                            log[r] \o << <<"waitFailed", browser[r]>>,
                                         <<"throw", 0>> >>)
            f == FinallyBlock(r, c.log)
        IN /\ sent' = [sent EXCEPT ![r] = c.sent]
           /\ timers' = c.timers
           /\ rejected' = [rejected EXCEPT ![r] = c.threw]
           /\ log' = [log EXCEPT ![r] = f.log]
           /\ pc' = [pc EXCEPT ![r] = f.pc]
  /\ UNCHANGED <<url, browser, tempFilePath, files, live, unlinks, nextName,
                 nodeEnv, origin, unhandled>>

\* lines 128-138: waitForSelector settles; found: the settle delay starts;
\* not found: the inner catch logs a warning and page.pdf() is called
WaitForSelectorReturn(r) ==
  /\ pc[r] = "waitForSelector"
  /\ \/ Await(r, "settle", << <<"settle", SettleDelay>> >>)
     \/ Await(r, "pdf", << <<"waitFailed", browser[r]>>,
                           <<"pdf", tempFilePath[r]>> >>)
  /\ UNCHANGED <<url, browser, tempFilePath, files, live, unlinks, nextName,
                 nodeEnv, origin, unhandled>>

\* lines 130-138: the settle delay elapses; page.pdf({path: tempFilePath})
SettleReturn(r) ==
  /\ pc[r] = "settle"
  /\ Await(r, "pdf", << <<"pdf", tempFilePath[r]>> >>)
  /\ UNCHANGED <<url, browser, tempFilePath, files, live, unlinks, nextName,
                 nodeEnv, origin, unhandled>>

\* lines 138-149: page.pdf settles: the file written in full, or a failure
\* with nothing or with part of the file on disk; on success fs.stat()
PdfReturn(r) ==
  /\ pc[r] = "pdf"
  /\ \/ \E n \in Sizes :
          /\ files' = WriteFile(files, tempFilePath[r], Bytes(n))
          /\ Await(r, "stat", << <<"exported", n>>, <<"stat", tempFilePath[r]>> >>)
     \/ /\ Throw(r, Msg("Printing failed", 0))
        /\ \/ UNCHANGED files
           \/ \E n \in Sizes :
                files' = WriteFile(files, tempFilePath[r], Bytes(n))
  /\ UNCHANGED <<url, browser, tempFilePath, live, unlinks, nextName,
                 nodeEnv, origin, unhandled>>

\* mutant: the deletion is scheduled as soon as the size check has passed,
\* before the read-back
StatReturn_DeleteFirst(r) ==
  /\ pc[r] = "stat"
  /\ IF ~FileExists(tempFilePath[r])
     THEN Throw(r, Msg("ENOENT: no such file or directory, stat", 0))
     ELSE IF StatSize(tempFilePath[r]) = 0
          THEN Throw(r, Msg("Generated PDF file is empty", 0))
          ELSE /\ pc' = [pc EXCEPT ![r] = "readFile"]
               /\ log' = [log EXCEPT ![r] = @ \o
                            << <<"deleteFileAfterDelay", tempFilePath[r], 0>>,
                               <<"readFile", tempFilePath[r]>> >>]
               /\ timers' = deleteFileAfterDelay(r, timers, tempFilePath[r], 0)
               /\ UNCHANGED <<sent, rejected>>
  /\ UNCHANGED <<url, browser, tempFilePath, files, live, unlinks, nextName,
                 nodeEnv, origin, unhandled>>

\* lines 149-157: stat settles (it fails when the file is not there); the size
\* check; on success fs.readFile()
StatReturn(r) ==
  /\ pc[r] = "stat"
  /\ IF ~FileExists(tempFilePath[r])
     THEN Throw(r, Msg("ENOENT: no such file or directory, stat", 0))
     ELSE IF StatSize(tempFilePath[r]) = 0
          THEN Throw(r, Msg("Generated PDF file is empty", 0))
          ELSE Await(r, "readFile", << <<"readFile", tempFilePath[r]>> >>)
  /\ UNCHANGED <<url, browser, tempFilePath, files, live, unlinks, nextName,
                 nodeEnv, origin, unhandled>>

\* mutant: a step after res.send throws; the catch block then throws on
\* res.status(500).json because the headers are already sent
SendPdf_ThenThrow(r, pdfBuffer) ==
  LET lg == log[r] \o << <<"res", 200>>, <<"throw", 0>> >>
      f  == FinallyBlock(r, lg)
  IN /\ sent' = [sent EXCEPT ![r] = Append(@, PdfResponse(pdfBuffer))]
     /\ rejected' = [rejected EXCEPT ![r] = TRUE]
     /\ log' = [log EXCEPT ![r] = f.log]
     /\ pc' = [pc EXCEPT ![r] = f.pc]
     /\ UNCHANGED timers

\* lines 157-171 and the finally block: readFile settles; headers, res.send,
\* deleteFileAfterDelay(tempFilePath) with the default delay
SendPdf(r, pdfBuffer) ==
  LET lg == log[r] \o << <<"res", 200>>,
                          <<"deleteFileAfterDelay", tempFilePath[r], DefaultDelay>> >>
      f  == FinallyBlock(r, lg)
  IN /\ sent' = [sent EXCEPT ![r] = Append(@, PdfResponse(pdfBuffer))]
     /\ timers' = deleteFileAfterDelay(r, timers, tempFilePath[r], DefaultDelay)
     /\ log' = [log EXCEPT ![r] = f.log]
     /\ pc' = [pc EXCEPT ![r] = f.pc]
     /\ UNCHANGED rejected

ReadFileReturn(r) ==
  /\ pc[r] = "readFile"
  /\ IF ~FileExists(tempFilePath[r])
     THEN Throw(r, Msg("ENOENT: no such file or directory, open", 0))
     ELSE SendPdf(r, files[tempFilePath[r]])
  /\ UNCHANGED <<url, browser, tempFilePath, files, live, unlinks, nextName,
                 nodeEnv, origin, unhandled>>

\* mutant: no try/catch around browser.close(), its failure leaves the handler
CloseReturn_Rethrow(r) ==
  /\ pc[r] = "close"
  /\ pc' = [pc EXCEPT ![r] = "done"]
  /\ \/ /\ live' = live \ {browser[r]}
        /\ log' = [log EXCEPT ![r] = Append(@, <<"closed", browser[r]>>)]
        /\ UNCHANGED rejected
     \/ /\ log' = [log EXCEPT ![r] = Append(@, <<"closeFailed", browser[r]>>)]
        /\ rejected' = [rejected EXCEPT ![r] = TRUE]
        /\ \/ live' = live \ {browser[r]}
           \/ UNCHANGED live
  /\ UNCHANGED <<url, browser, tempFilePath, sent, files, timers,
                 unlinks, nextName, nodeEnv, origin, unhandled>>

\* lines 190-196: browser.close() settles; a failure is logged and swallowed.
\* A close that failed may or may not have ended the browser process.
CloseReturn(r) ==
  /\ pc[r] = "close"
  /\ pc' = [pc EXCEPT ![r] = "done"]
  /\ \/ /\ live' = live \ {browser[r]}
        /\ log' = [log EXCEPT ![r] = Append(@, <<"closed", browser[r]>>)]
     \/ /\ log' = [log EXCEPT ![r] = Append(@, <<"closeFailed", browser[r]>>)]
        /\ \/ live' = live \ {browser[r]}
           \/ UNCHANGED live
  /\ UNCHANGED <<url, browser, tempFilePath, sent, rejected, files, timers,
                 unlinks, nextName, nodeEnv, origin, unhandled>>

\* mutant: the timer callback without its try/catch; a failed unlink rejects
\* the promise of the async callback, which nothing handles
TimerFire_NoCatch(t) ==
  /\ t \in timers
  /\ timers' = timers \ {t}
  /\ \/ /\ FileExists(t.path)
        /\ files' = RemoveFile(files, t.path)
        /\ unlinks' = [unlinks EXCEPT ![t.owner] = Append(@, "deleted")]
        /\ UNCHANGED unhandled
     \/ /\ UNCHANGED files
        /\ unlinks' = [unlinks EXCEPT ![t.owner] = Append(@, "failed")]
        /\ unhandled' = unhandled \cup {t.owner}
  /\ UNCHANGED <<pc, url, browser, tempFilePath, sent, rejected, log, live,
                 nextName, nodeEnv, origin>>

\* lines 48-55: the timer callback: fs.unlink(filePath); a failure is logged
TimerFire(t) ==
  /\ t \in timers
  /\ timers' = timers \ {t}
  /\ \/ /\ FileExists(t.path)
        /\ files' = RemoveFile(files, t.path)
        /\ unlinks' = [unlinks EXCEPT ![t.owner] = Append(@, "deleted")]
     \/ /\ UNCHANGED files
        /\ unlinks' = [unlinks EXCEPT ![t.owner] = Append(@, "failed")]
  /\ UNCHANGED <<pc, url, browser, tempFilePath, sent, rejected, log, live,
                 nextName, nodeEnv, origin, unhandled>>

TimerIds ==
  [owner : Reqs, seq : 1..2, path : Paths, delay : {0, DefaultDelay}]

Step(r) ==
  \/ LaunchReturn(r)
  \/ NewPageReturn(r)
  \/ SetViewportReturn(r)
  \/ GotoReturn(r)
  \/ WaitForSelectorReturn(r)
  \/ SettleReturn(r)
  \/ PdfReturn(r)
  \/ StatReturn(r)
  \/ ReadFileReturn(r)
  \/ CloseReturn(r)

Next ==
  \/ \E r \in Reqs : \E o \in Origins : \E u \in Urls : Start(r, o, u)
  \/ \E r \in Reqs : \E o \in Origins : \E u \in Urls : CorsReject(r, o, u)
  \/ \E r \in Reqs : Step(r)
  \/ \E t \in timers : TimerFire(t)

Spec == Init /\ [][Next]_vars

\* The event loop runs every settled promise's continuation and every due
\* timer; every engine and filesystem call settles.
FairSpec ==
  /\ Spec
  /\ \A r \in Reqs : WF_vars(Step(r))
  /\ \A t \in TimerIds : WF_vars(TimerFire(t))

\* ------------------------------------------------- reading the call logs
Ops(lg, op) == {i \in DOMAIN lg : lg[i][1] = op}

Count(lg, op) == Cardinality(Ops(lg, op))

Called(r, op) == Ops(log[r], op) # {}

\* the handler has left its try/catch (the response is decided)
Answered(r) == pc[r] \in {"close", "done"}

Finished(r) == pc[r] = "done"

Got200(r) == \E i \in DOMAIN sent[r] : sent[r][i].status = 200

PendingTimers(r) == {t \in timers : t.owner = r}

\* the deletions request r scheduled, as <<path, delay>>, in order of the calls
Scheduled(r) ==
  {<<log[r][i][2], log[r][i][3]>> : i \in Ops(log[r], "deleteFileAfterDelay")}

\* ------------------------------------------------------------------- C1
\* C1 as stated: every finished request, whatever its outcome, has had exactly
\* one browser.close.
C1_EveryRequestOneClose ==
  \A r \in Reqs : Finished(r) => Count(log[r], "close") = 1

\* C1 amended: browser.close is never called twice; a finished request has had
\* exactly one browser.close if its launch succeeded, and none if the url was
\* missing or the launch failed (there is no session to tear down).
C1_OneCloseIffLaunched ==
  \A r \in Reqs :
    /\ Count(log[r], "close") <= 1
    /\ Finished(r) =>
         Count(log[r], "close") = (IF Called(r, "launched") THEN 1 ELSE 0)

C1_Witness ==
  \E r \in Reqs :
    /\ Finished(r)
    /\ Called(r, "launched")
    /\ Called(r, "throw")
    /\ Count(log[r], "close") = 1

\* ------------------------------------------------------------------- C2
\* C2 as stated: every request schedules the deletion exactly once, with the
\* default delay after a success and with delay 0 after a failure.
C2_EveryRequestOneDeletion ==
  \A r \in Reqs :
    Answered(r) =>
      /\ Count(log[r], "deleteFileAfterDelay") = 1
      /\ Scheduled(r) =
           {<<tempFilePath[r], IF Got200(r) THEN DefaultDelay ELSE 0>>}

\* C2 amended: a request that allocated a temporary path (its url is present)
\* schedules the deletion of that path exactly once, with the default delay
\* (5000 ms) after a success and with delay 0 after a failure at any step; a
\* request whose url is missing allocates no path and schedules no deletion.
C2_OneDeletionIffPath ==
  \A r \in Reqs :
    Answered(r) =>
      IF Called(r, "getTempFilePath")
      THEN /\ Count(log[r], "deleteFileAfterDelay") = 1
           /\ Scheduled(r) =
                {<<tempFilePath[r], IF Got200(r) THEN DefaultDelay ELSE 0>>}
      ELSE /\ Count(log[r], "deleteFileAfterDelay") = 0
           /\ url[r] \in {"absent", ""}

C2_Witness ==
  \E r, q \in Reqs :
    /\ Answered(r) /\ Got200(r)
    /\ Scheduled(r) = {<<tempFilePath[r], DefaultDelay>>}
    /\ Answered(q) /\ Called(q, "exported") /\ ~Got200(q)
    /\ Scheduled(q) = {<<tempFilePath[q], 0>>}

\* ------------------------------------------------------------------- C3
UnlinkFailed(r) == \E i \in DOMAIN unlinks[r] : unlinks[r][i] = "failed"

OwnFileExists(r) == tempFilePath[r] # Undefined /\ FileExists(tempFilePath[r])

\* C3 as stated, in the form a finite run refutes: once a request's handler
\* has finished and every deletion it scheduled has run, nothing is left that
\* could remove its file, so the file must be gone.
C3_FileGoneWhenAllDone ==
  \A r \in Reqs :
    (Finished(r) /\ PendingTimers(r) = {}) => ~OwnFileExists(r)

\* C3 amended: every temporary file a request causes to exist is eventually
\* removed, whichever way the handler exits, unless the single unlink attempt
\* of the scheduled deletion fails (the failure is logged; there is no retry).
C3_FileRemovedUnlessUnlinkFails ==
  \A r \in Reqs : OwnFileExists(r) ~> (~OwnFileExists(r) \/ UnlinkFailed(r))

\* the export failed leaving a file behind, and the deletion removed it
C3_Witness ==
  \E r \in Reqs :
    /\ Called(r, "pdf") /\ ~Called(r, "exported") /\ Called(r, "throw")
    /\ unlinks[r] = <<"deleted">>
    /\ ~OwnFileExists(r)

\* ------------------------------------------------------------------- C4
\* C4: a request whose url is absent or empty is answered 500 with error
\* 'Failed to generate PDF' and message 'URL parameter is required'; it
\* launches no browser, allocates no temporary path, schedules no deletion
\* and calls no browser.close.
C4_MissingUrl ==
  \A r \in Reqs :
    (pc[r] \notin {"idle", "corsRejected"} /\ url[r] \in {"absent", ""}) =>
      /\ Finished(r)
      /\ Len(sent[r]) = 1
      /\ sent[r][1].status = 500
      /\ sent[r][1].body.error = "Failed to generate PDF"
      /\ sent[r][1].body.message = Msg("URL parameter is required", 0)
      /\ ~rejected[r]
      /\ ~Called(r, "launch") /\ ~Called(r, "getTempFilePath")
      /\ ~Called(r, "deleteFileAfterDelay") /\ ~Called(r, "close")
      /\ browser[r] = Undefined /\ tempFilePath[r] = Undefined
      /\ PendingTimers(r) = {} /\ unlinks[r] = <<>>

C4_Witness ==
  \E r, q \in Reqs :
    /\ Finished(r) /\ url[r] = ""
    /\ Finished(q) /\ url[q] = "absent"

\* ------------------------------------------------------------------- C5
\* the size of the file the export step of request r wrote (its last export)
Exported(r) == {log[r][i][2] : i \in Ops(log[r], "exported")}

\* C5: every 200 response has a non-empty body whose length is the declared
\* Content-Length; a request whose exported file is zero bytes never gets a
\* 200 and is answered with the empty-output error.
C5_NonEmptyDocument ==
  \A r \in Reqs :
    /\ \A i \in DOMAIN sent[r] :
         sent[r][i].status = 200 =>
           /\ Len(sent[r][i].body) > 0
           /\ sent[r][i].contentLength = Len(sent[r][i].body)
    /\ 0 \in Exported(r) =>
         /\ ~Got200(r)
         /\ pc[r] # "stat" =>
              /\ Len(sent[r]) = 1
              /\ sent[r][1].status = 500
              /\ sent[r][1].body.message = Msg("Generated PDF file is empty", 0)

C5_Witness ==
  \E r, q \in Reqs :
    /\ Got200(r) /\ Len(sent[r][1].body) = MaxSize
    /\ 0 \in Exported(q) /\ Answered(q)

\* ------------------------------------------------------------------- C6
\* C6: every failure inside the handler is answered, at the handler boundary,
\* with status 500 and the JSON envelope {error, message, stack?} (stack only
\* in development mode); a failed request never receives document bytes and
\* the failure does not leave the handler.
C6_UniformFailure ==
  \A r \in Reqs :
    Called(r, "throw") =>
      /\ Answered(r)
      /\ Len(sent[r]) = 1
      /\ sent[r][1].status = 500
      /\ sent[r][1].type = "application/json"
      /\ sent[r][1].body.error = "Failed to generate PDF"
      /\ DOMAIN sent[r][1].body =
           (IF nodeEnv = "development"
            THEN {"error", "message", "stack"}
            ELSE {"error", "message"})
      /\ ~Got200(r)
      /\ ~rejected[r]

\* one request failed at the launch, another after its export
C6_Witness ==
  \E r, q \in Reqs :
    /\ Finished(r) /\ Called(r, "throw") /\ ~Called(r, "launched")
    /\ Called(r, "launch")
    /\ Finished(q) /\ Called(q, "throw") /\ Called(q, "exported")

\* ------------------------------------------------------------------- C7
\* the non-success statuses request r's navigation observed
BadStatuses(r) ==
  {log[r][i][2] : i \in {j \in Ops(log[r], "status") :
                           /\ log[r][j][2] # 0
                           /\ (log[r][j][2] < 200 \/ log[r][j][2] > 299)}}

\* C7: when navigation returns a non-success status, the request fails with an
\* error whose message carries that status, page.pdf is never invoked for the
\* request and no document is returned.
C7_UpstreamPageError ==
  \A r \in Reqs :
    \A status \in BadStatuses(r) :
      /\ Len(sent[r]) = 1
      /\ sent[r][1].status = 500
      /\ sent[r][1].body.message = Msg("Failed to load page: ", status)
      /\ ~Called(r, "pdf")
      /\ ~Called(r, "exported")
      /\ ~Got200(r)

C7_Witness ==
  \E r, q \in Reqs :
    /\ Finished(r) /\ BadStatuses(r) = {404}
    /\ Finished(q) /\ BadStatuses(q) = {500}

\* ------------------------------------------------------------------- C8
\* C8: the response is sent before browser.close is attempted; a failure of
\* browser.close is swallowed (the response stays the one already sent, the
\* handler does not reject) and a close that has not completed holds back no
\* response.
C8_ResponseBeforeClose ==
  \A r \in Reqs :
    /\ \A i \in Ops(log[r], "close") :
         /\ Len(sent[r]) = 1
         /\ \E j \in Ops(log[r], "res") :
              j < i /\ log[r][j][2] = sent[r][1].status
    /\ pc[r] = "close" => Len(sent[r]) = 1
    /\ Called(r, "closeFailed") =>
         /\ Finished(r)
         /\ Len(sent[r]) = 1
         /\ ~rejected[r]

\* one close failed after a 200, another close is still pending after a 500
C8_Witness ==
  \E r, q \in Reqs :
    /\ Called(r, "closeFailed") /\ Got200(r)
    /\ pc[q] = "close" /\ Called(q, "throw")

\* ------------------------------------------------------------------- C9
InFlightReqs == {r \in Reqs : InFlight(r)}

\* the live sessions request r launched
Sessions(r) == {h \in live : h = browser[r]}

\* C9 as stated: every in-flight request owns exactly one live session, and
\* the live sessions are as many as the in-flight requests.
C9_ExactlyOneSession ==
  /\ \A r \in InFlightReqs : Cardinality(Sessions(r)) = 1
  /\ Cardinality(live) = Cardinality(InFlightReqs)

\* C9 amended: an in-flight request owns at most one live session: none until
\* its launch has succeeded, exactly one from then until its browser.close
\* settles; it owns at most one temporary path.  Every live session belongs
\* to an in-flight request or to a request whose browser.close failed, so
\* the live sessions of in-flight requests are at most as many as they are.
C9_AtMostOneSession ==
  /\ \A r \in InFlightReqs :
       /\ Count(log[r], "launch") = 1
       /\ Count(log[r], "launched") <= 1
       /\ Count(log[r], "getTempFilePath") = 1
       /\ Cardinality(Sessions(r)) = (IF Called(r, "launched") THEN 1 ELSE 0)
       /\ pc[r] = "launch" <=> ~Called(r, "launched")
  /\ \A h \in live :
       \E r \in Reqs :
         /\ browser[r] = h
         /\ InFlight(r) \/ Called(r, "closeFailed")
  /\ Cardinality({h \in live : \E r \in InFlightReqs : browser[r] = h})
       <= Cardinality(InFlightReqs)

\* two requests in flight, one with its session, one still launching
C9_Witness ==
  \E r, q \in InFlightReqs :
    /\ Cardinality(Sessions(r)) = 1 /\ OwnFileExists(r)
    /\ pc[q] = "launch" /\ Sessions(q) = {}

\* ------------------------------------------------------------------ C10
FsOps == {"pdf", "stat", "readFile", "deleteFileAfterDelay", "getTempFilePath"}

BrowserOps == {"launched", "newPage", "setViewport", "goto", "waitForSelector",
               "close", "closed", "closeFailed"}

\* C10: with fresh names from getTempFilePath, concurrent requests use
\* distinct browser handles and distinct temporary paths; every export, stat,
\* read, scheduled deletion and browser.close of a request is on its own path
\* or handle; and what a request finds at its path, and what it answers, is
\* what its own export wrote.
C10_Isolation ==
  /\ \A r, q \in Reqs :
       r # q =>
         /\ tempFilePath[r] # Undefined => tempFilePath[r] # tempFilePath[q]
         /\ browser[r] # Undefined => browser[r] # browser[q]
  /\ \A r \in Reqs : \A i \in DOMAIN log[r] :
       /\ log[r][i][1] \in FsOps => log[r][i][2] = tempFilePath[r]
       /\ log[r][i][1] \in BrowserOps => log[r][i][2] = browser[r]
  /\ \A t \in timers : t.path = tempFilePath[t.owner]
  /\ \A p \in DOMAIN files : \E r \in Reqs : tempFilePath[r] = p /\ Called(r, "pdf")
  /\ \A r \in Reqs :
       /\ pc[r] \in {"stat", "readFile"} =>
            /\ OwnFileExists(r)
            /\ \A n \in Exported(r) : files[tempFilePath[r]] = Bytes(n)
       /\ \A i \in DOMAIN sent[r] :
            sent[r][i].status = 200 =>
              \A n \in Exported(r) : sent[r][i].body = Bytes(n)
       /\ Len(unlinks[r]) <= Count(log[r], "deleteFileAfterDelay")

\* two requests overlap between export and read-back, with different files
C10_Witness ==
  \E r, q \in Reqs :
    /\ r # q
    /\ pc[r] = "readFile" /\ pc[q] = "stat"
    /\ files[tempFilePath[r]] # files[tempFilePath[q]]

\* ------------------------------------------------------------------ C11
\* the route handler of request r has run (or is running)
HandlerRan(r) == pc[r] \notin {"idle", "corsRejected"}

CloseOps == {"close", "closed", "closeFailed"}

\* C12: once the launch has succeeded, browser.close is attempted exactly once
\* on every exit path, after everything the try and catch blocks do (also when
\* the catch block throws), and not before the try/catch is left.
C12_CloseOnEveryExit ==
  \A r \in Reqs :
    Called(r, "launched") =>
      /\ Count(log[r], "close") = (IF Answered(r) THEN 1 ELSE 0)
      /\ rejected[r] => Called(r, "close")
      /\ \A i \in Ops(log[r], "close") :
           /\ \E j \in DOMAIN log[r] : j < i /\ log[r][j][1] \in {"res", "throw"}
           /\ \A k \in DOMAIN log[r] :
                (k < i => log[r][k][1] \notin CloseOps)
                /\ (k > i => log[r][k][1] \in CloseOps)

\* the browser was closed after a fault in the viewport setup, and after an
\* empty export
C12_Witness ==
  \E r, q \in Reqs :
    /\ Finished(r) /\ Called(r, "setViewport") /\ ~Called(r, "goto")
    /\ Count(log[r], "close") = 1
    /\ Finished(q) /\ 0 \in Exported(q) /\ Count(log[q], "close") = 1

\* ------------------------------------------------------------------ C13
\* the messages of the faults of the export, the size check and the read-back
ExportFaults ==
  {Msg("Printing failed", 0),
   Msg("ENOENT: no such file or directory, stat", 0),
   Msg("Generated PDF file is empty", 0),
   Msg("ENOENT: no such file or directory, open", 0)}

\* C13: a failed or expired wait for the body element does not fail the
\* request: page.pdf is called right after it, nothing is thrown before the
\* export, a 500 of such a request carries a fault of the export, the size
\* check or the read-back, and a non-empty export is answered with 200.
C13_ReadinessWaitNotFatal ==
  \A r \in Reqs :
    Called(r, "waitFailed") =>
      /\ \A i \in Ops(log[r], "waitFailed") :
           /\ i + 1 \in DOMAIN log[r]
           /\ log[r][i + 1] = <<"pdf", tempFilePath[r]>>
           /\ \A k \in Ops(log[r], "throw") : k > i + 1
      /\ \A i \in DOMAIN sent[r] :
           sent[r][i].status = 500 => sent[r][i].body.message \in ExportFaults
      /\ (Answered(r) /\ Exported(r) # {} /\ 0 \notin Exported(r)) => Got200(r)
      /\ (Answered(r) /\ (Exported(r) = {} \/ 0 \in Exported(r))) => ~Got200(r)

\* after a failed wait one request got its document, another the empty-output
\* error
C13_Witness ==
  \E r, q \in Reqs :
    /\ Called(r, "waitFailed") /\ Got200(r)
    /\ Called(q, "waitFailed") /\ Finished(q) /\ 0 \in Exported(q)
    /\ sent[q][1].body.message = Msg("Generated PDF file is empty", 0)

\* ------------------------------------------------------------------ C14
\* C14: every call of page.pdf comes right after the 3000 ms settle delay,
\* whether the wait for the body element succeeded or failed.
C14_SettleBeforeExport ==
  \A r \in Reqs :
    \A i \in Ops(log[r], "pdf") :
      \E j \in Ops(log[r], "settle") :
        j < i /\ log[r][j] = <<"settle", SettleDelay>>

\* ------------------------------------------------------------------ C15
\* the scheduled deletion of request r has just failed
DeletionFails(r) ==
  /\ Len(unlinks'[r]) = Len(unlinks[r]) + 1
  /\ unlinks'[r][Len(unlinks'[r])] = "failed"

\* C15: a scheduled deletion that fails (no file, or an unlink error) is
\* swallowed in the timer callback: the step changes no response, leaves the
\* handler where it was (its browser teardown included) and adds no unhandled
\* rejection; the process never has one.
C15_DeletionFailureSwallowed ==
  [][ /\ unhandled = {} /\ unhandled' = {}
      /\ \A r \in Reqs :
           DeletionFails(r) =>
             /\ sent' = sent /\ rejected' = rejected
             /\ pc' = pc /\ log' = log
             /\ browser' = browser /\ live' = live ]_vars

\* one deletion failed on a file that was never created, another on a file
\* that exists; both requests keep their response and had their browser closed
C15_Witness ==
  \E r, q \in Reqs :
    /\ unlinks[r] = <<"failed">> /\ Exported(r) = {} /\ ~OwnFileExists(r)
    /\ Finished(r) /\ Called(r, "closed") /\ Len(sent[r]) = 1
    /\ unlinks[q] = <<"failed">> /\ OwnFileExists(q)
    /\ Finished(q) /\ Called(q, "closed") /\ Got200(q)
    /\ unhandled = {}

\* ------------------------------------------------------------------ C16
\* C16: a request never has two responses; once its handler has answered (or
\* the CORS check has refused it) it has exactly one; the handler's promise is
\* not rejected; nothing is thrown after the 200 response was sent.
C16_ExactlyOneResponse ==
  \A r \in Reqs :
    /\ Len(sent[r]) <= 1
    /\ Count(log[r], "res") = (IF HandlerRan(r) THEN Len(sent[r]) ELSE 0)
    /\ (Answered(r) \/ pc[r] = "corsRejected") => Len(sent[r]) = 1
    /\ ~rejected[r]
    /\ \A i \in Ops(log[r], "res") :
         log[r][i][2] = 200 =>
           \A k \in Ops(log[r], "throw") : k < i

\* one request got exactly the document, another exactly the error response
\* after its export had failed
C16_Witness ==
  \E r, q \in Reqs :
    /\ Finished(r) /\ Got200(r) /\ Len(sent[r]) = 1
    /\ Finished(q) /\ Called(q, "pdf") /\ Called(q, "throw")
    /\ Len(sent[q]) = 1 /\ sent[q][1].status = 500

\* ------------------------------------------------------------------ C17
\* C17: up to the end of the read-back no deletion of the request's file is
\* scheduled or has run, and the exported file is on disk untouched; the
\* deletion is scheduled only after the bytes read were handed to the
\* response, so the body of a 200 is the whole exported file, also after the
\* deletion has run.
C17_DeletionAfterReadBack ==
  \A r \in Reqs :
    /\ pc[r] \in {"pdf", "stat", "readFile"} =>
         PendingTimers(r) = {} /\ unlinks[r] = <<>>
    /\ pc[r] \in {"stat", "readFile"} =>
         /\ OwnFileExists(r)
         /\ \A n \in Exported(r) : files[tempFilePath[r]] = Bytes(n)
    /\ Got200(r) =>
         /\ \A n \in Exported(r) : sent[r][1].body = Bytes(n)
         /\ \A d \in Ops(log[r], "deleteFileAfterDelay") :
              /\ log[r][d][3] = DefaultDelay
              /\ \E i \in Ops(log[r], "readFile") : i < d
              /\ \E i \in Ops(log[r], "res") : i < d
    /\ unlinks[r] # <<>> => Answered(r)

\* the file of a request that got the whole document has been deleted
C17_Witness ==
  \E r \in Reqs :
    /\ Got200(r) /\ sent[r][1].body = Bytes(MaxSize)
    /\ unlinks[r] = <<"deleted">> /\ ~OwnFileExists(r)

\* ------------------------------------------------------------------ C18
\* C18 as stated, in the form a finite run refutes: a finished handler has
\* answered and has left no browser of its request open (nothing closes the
\* browser after the handler has finished).
C18_FinishedWithNoBrowserOpen ==
  \A r \in Reqs :
    Finished(r) => Len(sent[r]) = 1 /\ browser[r] \notin live

\* C18 amended: when every pending call settles, every request that arrived is
\* eventually answered exactly once and its handling ends; then no browser of
\* the request is open, unless its single browser.close failed.
C18_EventuallyAnsweredAndFinished ==
  \A r \in Reqs :
    (pc[r] # "idle") ~>
      /\ pc[r] \in {"done", "corsRejected"}
      /\ Len(sent[r]) = 1
      /\ browser[r] \notin live \/ Called(r, "closeFailed")

\* one request finished with its browser closed, another finished although its
\* browser.close failed and left the browser running
C18_Witness ==
  \E r, q \in Reqs :
    /\ Finished(r) /\ Called(r, "closed") /\ browser[r] \notin live
    /\ Len(sent[r]) = 1
    /\ Finished(q) /\ Called(q, "closeFailed") /\ browser[q] \in live
    /\ Len(sent[q]) = 1

====
